---- MODULE Spec2Model ----
(***************************************************************************)
(* VibeCity: the hexagonal grid (src/src/hex/HexGrid.ts, class HexGrid,    *)
(* lines 334-702) as a state machine.                                      *)
(*                                                                         *)
(* Numbers.  The source computes in IEEE doubles.  The model holds         *)
(*   - clock readings (performance.now() / 1000) and frame deltas as       *)
(*     integer ticks, TicksPerSec ticks to the second;                     *)
(*   - distances along a wave as integer multiples of 1/DistScale hex;     *)
(*   - intensities as integer multiples of 1/IScale, products rounded to   *)
(*     the nearest unit (ties away from zero) where a double would round.  *)
(* A map key "q,r" (coordToKey) is the pair <<q, r>>.                      *)
(***************************************************************************)
EXTENDS Integers, Sequences, FiniteSets, TLC

VARIABLES
    hexes,        \* Map<string, HexState>: key -> cell record
    activeHexes,  \* Set<string>: keys of the cells the frame pass visits
    waves,        \* Wave[]: the waves in flight, in trigger order
    colors,       \* the color attribute of the geometry, by blocks of 12 vertices
    hoveredHex,   \* {q, r} | null: <<q, r>> or NoHex
    group,        \* THREE.Group children that are tile meshes (mesh ids)
    disposed,     \* mesh id -> number of TileRenderer.disposeMesh calls on it
    meshCount,    \* number of tile meshes constructed so far (ids 1..meshCount)
    now,          \* performance.now() / 1000, in ticks
    app,          \* App: mouse, isMouseDown, lastTriggeredHex, the palette's
                  \* selectedType and the audio engine's isInitialized, synth
                  \* and the number of synthesizers constructed so far
    tasks,        \* handleMouseDown calls suspended at their await, oldest first
    ret,          \* what the last HexUtils call returned, as a tuple
    scene,        \* Scene: animationId, the frames requested, lastTime
    time,         \* TimeManager: currentTime, isPlaying, lastTimeOfDay, events
    last          \* the call that produced this state, with its arguments

vars == <<hexes, activeHexes, waves, colors, hoveredHex, group, disposed,
          meshCount, now, app, tasks, ret, scene, time, last>>

\* the state outside the grid object
appVars == <<app, tasks, ret, scene, time>>

----------------------------------------------------------------------------
(* Resolution of the number representation.                                *)

TicksPerSec == 100

DistScale == 4

IScale == 108

(* Bounds of the model.                                                    *)

Radius == 1

WideRadius == 4

MaxTime == 26

MaxMeshes == 3

MaxIntensity == 1

MaxOverlap == 1

MaxPending == 1

CoordMax == 3

MaxRadius == 3

\* frames advance the game clock while it stays within this hour
MaxHour == 60

\* the frame requests made in one run
MaxRequests == 4

\* the clock stops advancing here, after the last wave has expired
MaxClock == 50

\* calls of AudioEngine.initialize() waiting for Tone.start() at a time
MaxCalls == 2

----------------------------------------------------------------------------
(* Program constants.                                                      *)

WaveSpeed == 25

WaveWidth == (3 * DistScale) \div 2

MaxWaves == 5

MaxWaveDistance == 6

WaveRange == 6

WaveGain == 2

MaxWaveIntensity == IScale

LerpSpeed == 5

EpsilonDen == 1000

VerticesPerHex == 12

Null == 0 - 1000

NoHex == <<>>

\* the (null, null) that handleInput passes for a pointer off the grid
NullHex == <<Null, Null>>

NoMesh == 0

TileTypes == {"empty", "road", "water", "grass", "stone"}

----------------------------------------------------------------------------
(* Arithmetic helpers.                                                     *)

Abs(x) == IF x < 0 THEN 0 - x ELSE x

Min(a, b) == IF a < b THEN a ELSE b

Max(a, b) == IF a > b THEN a ELSE b

\* n / d for d > 0, rounded to the nearest integer, ties away from zero
RoundDiv(n, d) ==
    IF n >= 0 THEN (2 * n + d) \div (2 * d)
    ELSE 0 - ((2 * (0 - n) + d) \div (2 * d))

\* Math.ceil of x / DistScale, x >= 0
CeilHex(x) == (x + DistScale - 1) \div DistScale

Cube(x) == x * x * x

\* the falloff without its factor 2.0
FalloffNoGain(diff, width) ==
    RoundDiv(IScale * Cube(width - diff), Cube(width))

\* Math.pow(v, 3) * 2.0 with v = 1.0 - diff / width, in intensity units
Falloff(diff, width) ==
    RoundDiv(WaveGain * IScale * Cube(width - diff), Cube(width))

\* x > 0.001 and x < 0.001 for x in intensity units
GtEps(x) == x * EpsilonDen > IScale

LtEps(x) == x * EpsilonDen < IScale

----------------------------------------------------------------------------
(* HexUtils.                                                               *)

\* the distance without its third term
axialDistanceTwoTerms(q1, r1, q2, r2) ==
    (Abs(q1 - q2) + Abs(r1 - r2)) \div 2

\* a sign slipped in the third term
axialDistanceSignSlip(q1, r1, q2, r2) ==
    (Abs(q1 - q2) + Abs(r1 - r2) + Abs(q1 + r1 - q2 + r2)) \div 2

axialDistance(q1, r1, q2, r2) ==
    (Abs(q1 - q2) + Abs(r1 - r2) + Abs(q1 + r1 - q2 - r2)) \div 2

coordToKey(q, r) == <<q, r>>

(* World coordinates.  A world point is held as [x, z] with x counted in    *)
(* units of sqrt(3) / (2 * WorldScale) and z in units of 1 / (2 * WorldScale), *)
(* so the centre of every cell is a lattice point; a fractional axial      *)
(* coordinate is an integer numerator over FracDen.  The arithmetic is the *)
(* exact one: the rounding error of the doubles is left out.               *)

HEX_SIZE == 1

WorldScale == 2

FracDen == 6 * WorldScale

\* the conversion with q + r in place of q + r / 2
axialToWorldNoHalf(q, r) ==
    [x |-> HEX_SIZE * WorldScale * (2 * q + 2 * r), z |-> HEX_SIZE * WorldScale * 3 * r]

\* x = HEX_SIZE * sqrt(3) * (q + r / 2), z = HEX_SIZE * 3 / 2 * r
axialToWorld(q, r) ==
    [x |-> HEX_SIZE * WorldScale * (2 * q + r), z |-> HEX_SIZE * WorldScale * 3 * r]

\* Math.round(n / FracDen): the nearest integer, a tie going up
MathRound(n) == (2 * n + FracDen) \div (2 * FracDen)

\* the three coordinates rounded and left uncorrected
CubeRoundNoFix(q, r) ==
    <<MathRound(q), MathRound(0 - q - r), MathRound(r)>>

\* the three rounded cube coordinates after the correction, as <<rx, ry, rz>>
CubeRound(q, r) ==
    LET x == q
        z == r
        y == 0 - x - z
        rx == MathRound(x)
        rz == MathRound(z)
        ry == MathRound(y)
        xDiff == Abs(rx * FracDen - x)
        yDiff == Abs(ry * FracDen - y)
        zDiff == Abs(rz * FracDen - z)
    IN IF xDiff > yDiff /\ xDiff > zDiff THEN <<0 - ry - rz, ry, rz>>
       ELSE IF yDiff > zDiff THEN <<rx, 0 - rx - rz, rz>>
       ELSE <<rx, ry, 0 - rx - ry>>

\* return { q: rx, r: rz }
axialRound(q, r) == <<CubeRound(q, r)[1], CubeRound(q, r)[3]>>

\* q = (x * sqrt(3) / 3 - z / 3) / HEX_SIZE, r = (z * 2 / 3) / HEX_SIZE,
\* as numerators over FracDen
worldToAxial(x, z) == axialRound((3 * x - z) \div HEX_SIZE, (2 * z) \div HEX_SIZE)

----------------------------------------------------------------------------
(* generateGrid.                                                           *)

\* the loops without the clipping of r: a square of cells
GridKeysSquare(radius) ==
    ((0 - radius)..radius) \X ((0 - radius)..radius)

\* the loop over q stopping one short (q < radius)
GridKeysShort(radius) ==
    { k \in ((0 - radius)..(radius - 1)) \X ((0 - radius)..radius) :
        /\ k[2] >= Max(0 - radius, 0 - k[1] - radius)
        /\ k[2] <= Min(radius, 0 - k[1] + radius) }

\* for q in -radius..radius, for r in r1..r2
GridKeys(radius) ==
    { k \in ((0 - radius)..radius) \X ((0 - radius)..radius) :
        /\ k[2] >= Max(0 - radius, 0 - k[1] - radius)
        /\ k[2] <= Min(radius, 0 - k[1] + radius) }

\* the loops visit q ascending, then r ascending; index += 12 per cell
GridRank(radius, k) ==
    Cardinality({ j \in GridKeys(radius) :
                    \/ j[1] < k[1]
                    \/ (j[1] = k[1] /\ j[2] < k[2]) })

generateGrid(radius) ==
    [ k \in GridKeys(radius) |->
        [ q |-> k[1],
          r |-> k[2],
          intensity |-> 0,
          targetIntensity |-> 0,
          colorIndex |-> VerticesPerHex * GridRank(radius, k),
          tileType |-> "empty",
          tileMesh |-> NoMesh ] ]

\* the ray through the pointer misses the ground plane (intersectPlane
\* returns null)
NoHit == <<>>

NoKey == ""

NoRet == <<>>

\* the App fields after its constructor, with the palette's default type and
\* the audio engine not yet initialized; mouse is the point where the ray
\* through this.mouse meets the ground plane
\* AudioEngine.synth = null; the synthesizers are numbered from 1 as they
\* are constructed
NoSynth == NoMesh

InitApp ==
    [ mouse |-> [x |-> 0, z |-> 0],
      isMouseDown |-> FALSE,
      lastTriggeredHex |-> NoKey,
      selectedType |-> "road",
      isInitialized |-> FALSE,
      synth |-> NoSynth,
      synthsMade |-> 0 ]

\* no callback registered (animationCallback = null)
NoCallback == "null"

\* the Scene fields after its constructor: no frame requested and no
\* callback.  requests is the set of requestAnimationFrame ids not yet
\* served or cancelled, made the number of ids handed out, calls the number
\* of times the callback was invoked, and stopped tells that stopAnimation
\* has returned and startAnimation has not been called since
InitScene ==
    [ animationId |-> Null,
      animationCallback |-> NoCallback,
      requests |-> {},
      made |-> 0,
      lastTime |-> 0,
      calls |-> 0,
      stopped |-> FALSE ]

\* game time is counted in clock ticks: an hour is 3600 seconds
HourTicks == 3600 * TicksPerSec

InitialHour == 22

NoPeriod == "null"

\* the TimeManager fields after new TimeManager(22); emitted lists the
\* events of the last call in order, and lastEmitted is the period that the
\* latest timeOfDayChanged carried
InitTime ==
    [ currentTime |-> InitialHour * HourTicks,
      timeScale |-> 1,
      isPlaying |-> TRUE,
      lastTimeOfDay |-> NoPeriod,
      emitted |-> <<>>,
      lastEmitted |-> NoPeriod ]

\* baseHexColor 0x22aadd and activeHexColor 0x00ffff, channels in 1/255
baseHexColor == <<34, 170, 221>>

activeHexColor == <<0, 255, 255>>

\* a colour is <<r, g, b>> with each channel in units of 1 / (255 * IScale).
\* The colour of a cell of the given intensity: the active colour times the
\* intensity above 1.0, THREE.MathUtils.lerp(base, active, intensity) below
ColorOf(intensity) ==
    [ch \in 1..3 |->
        IF intensity > IScale
        THEN activeHexColor[ch] * intensity
        ELSE baseHexColor[ch] * (IScale - intensity) + activeHexColor[ch] * intensity]

\* the color attribute holds ItemSize floats to the vertex
ItemSize == 3

\* The attribute is kept by blocks of VerticesPerHex vertices, block b being
\* the vertices 12 * b .. 12 * b + 11: a block whose vertices all hold one
\* colour is kept as that colour, any other block as the sequence of the
\* colours of its vertices.
Pack(block) ==
    IF \A j \in 1..VerticesPerHex : block[j] = block[1] THEN block[1] ELSE block

Unpack(entry) ==
    IF Len(entry) = ItemSize THEN [j \in 1..VerticesPerHex |-> entry] ELSE entry

\* the number of vertices in the attribute
VertexCount(buf) == VerticesPerHex * Cardinality(DOMAIN buf)

\* colorAttribute.getX(v), getY(v), getZ(v)
VertexColor(buf, v) == Unpack(buf[v \div VerticesPerHex])[(v % VerticesPerHex) + 1]

\* colors.push(baseHexColor.r, baseHexColor.g, baseHexColor.b) for each of
\* the 12 vertices of each cell
InitColors(radius) ==
    [b \in 0..(Cardinality(GridKeys(radius)) - 1) |->
        Pack([j \in 1..VerticesPerHex |-> [ch \in 1..ItemSize |-> baseHexColor[ch] * IScale]])]

InitGrid(radius) ==
    /\ hexes = generateGrid(radius)
    /\ activeHexes = {}
    /\ waves = <<>>
    /\ colors = InitColors(radius)
    /\ hoveredHex = NoHex
    /\ group = {}
    /\ disposed = <<>>
    /\ meshCount = 0
    /\ now = 0
    /\ app = InitApp
    /\ tasks = <<>>
    /\ ret = NoRet
    /\ scene = InitScene
    /\ time = InitTime
    /\ last = [op |-> "new", q |-> 0, r |-> 0, arg |-> radius, type |-> "empty",
               nWaves |-> 0, hovered |-> NoHex, mesh |-> NoMesh]

Init == InitGrid(Radius)

\* the call and its arguments, with what the call found: the number of waves
\* held, the hovered cell, and the tile mesh of the cell it names
Called(op, q, r, arg, type) ==
    last' = [op |-> op, q |-> q, r |-> r, arg |-> arg, type |-> type,
             nWaves |-> Len(waves), hovered |-> hoveredHex,
             mesh |-> IF <<q, r>> \in DOMAIN hexes
                      THEN hexes[<<q, r>>].tileMesh ELSE NoMesh]

----------------------------------------------------------------------------
(* updateHexIntensity and setHover.                                        *)

\* the clamp with its lower bound lost
ClampAbove(intensity) == Min(IScale, intensity)

\* Math.max(0, Math.min(1, intensity))
Clamp01(intensity) == Max(0, Min(IScale, intensity))

\* the cells and the active set after updateHexIntensity(q, r, intensity)
HexesAfterIntensity(hs, q, r, intensity) ==
    LET key == coordToKey(q, r) IN
    IF key \notin DOMAIN hs THEN hs
    ELSE [hs EXCEPT ![key].targetIntensity = Clamp01(intensity)]

\* activeHexes.add(key) moved above the lookup
ActiveAfterIntensityNoLookup(hs, act, q, r) == act \cup {coordToKey(q, r)}

ActiveAfterIntensity(hs, act, q, r) ==
    LET key == coordToKey(q, r) IN
    IF key \notin DOMAIN hs THEN act ELSE act \cup {key}

updateHexIntensity(q, r, intensity) ==
    /\ hexes' = HexesAfterIntensity(hexes, q, r, intensity)
    /\ activeHexes' = ActiveAfterIntensity(hexes, activeHexes, q, r)
    /\ Called("updateHexIntensity", q, r, intensity, "empty")
    /\ UNCHANGED <<waves, colors, hoveredHex, group, disposed, meshCount, now>>
    /\ UNCHANGED appVars

SameHex(h, q, r) == h # NoHex /\ h[1] = q /\ h[2] = r

\* setHover without its "release the previous hover" step
HexesAfterUnhoverKept(hs, hovered) == hs

\* if (this.hoveredHex) this.updateHexIntensity(hoveredHex.q, hoveredHex.r, 0)
HexesAfterUnhover(hs, hovered) ==
    IF hovered # NoHex THEN HexesAfterIntensity(hs, hovered[1], hovered[2], 0)
    ELSE hs

ActiveAfterUnhover(hs, act, hovered) ==
    IF hovered # NoHex THEN ActiveAfterIntensity(hs, act, hovered[1], hovered[2])
    ELSE act

\* a setHover that leaves hoveredHex alone when the coordinate is no cell
HoveredAfterKeep(hs, hovered, q, r) ==
    IF coordToKey(q, r) \in DOMAIN hs THEN <<q, r>> ELSE hovered

\* this.hoveredHex = { q, r } if the key is a cell, null otherwise
HoveredAfter(hs, hovered, q, r) ==
    IF coordToKey(q, r) \in DOMAIN hs THEN <<q, r>> ELSE NoHex

\* the cells, the active set and hoveredHex after setHover(q, r)
HexesAfterHover(hs, hovered, q, r) ==
    IF SameHex(hovered, q, r) THEN hs
    ELSE HexesAfterIntensity(HexesAfterUnhover(hs, hovered), q, r, IScale)

ActiveAfterHover(hs, act, hovered, q, r) ==
    IF SameHex(hovered, q, r) THEN act
    ELSE ActiveAfterIntensity(hs, ActiveAfterUnhover(hs, act, hovered), q, r)

HoveredAfterHover(hs, hovered, q, r) ==
    IF SameHex(hovered, q, r) THEN hovered ELSE HoveredAfter(hs, hovered, q, r)

setHover(q, r) ==
    /\ Called("setHover", q, r, 0, "empty")
    /\ hexes' = HexesAfterHover(hexes, hoveredHex, q, r)
    /\ activeHexes' = ActiveAfterHover(hexes, activeHexes, hoveredHex, q, r)
    /\ hoveredHex' = HoveredAfterHover(hexes, hoveredHex, q, r)
    /\ UNCHANGED <<waves, colors, group, disposed, meshCount, now>>
    /\ UNCHANGED appVars

----------------------------------------------------------------------------
(* triggerWave.                                                            *)

NewWave(q, r, t) ==
    [q |-> q, r |-> r, startTime |-> t, speed |-> WaveSpeed, width |-> WaveWidth]

\* the cap enforced by dropping the newest wave instead of the oldest
WavesAfterTriggerPop(ws, q, r, t) ==
    LET pushed == Append(ws, NewWave(q, r, t)) IN
    IF Len(pushed) > MaxWaves THEN SubSeq(pushed, 1, MaxWaves) ELSE pushed

\* push, then shift when more than five are held
WavesAfterTrigger(ws, q, r, t) ==
    LET pushed == Append(ws, NewWave(q, r, t)) IN
    IF Len(pushed) > MaxWaves THEN Tail(pushed) ELSE pushed

triggerWave(q, r) ==
    /\ waves' = WavesAfterTrigger(waves, q, r, now)
    /\ Called("triggerWave", q, r, 0, "empty")
    /\ UNCHANGED <<hexes, activeHexes, colors, hoveredHex, group, disposed,
                   meshCount, now>>
    /\ UNCHANGED appVars

----------------------------------------------------------------------------
(* update: wave cleanup.                                                   *)

\* age * wave.speed, in 1/DistScale hex
WaveDist(wave, t) ==
    ((t - wave.startTime) * wave.speed * DistScale) \div TicksPerSec

Expired(wave, t) == WaveDist(wave, t) >= MaxWaveDistance * DistScale

\* waves.splice(i, 1)
Splice(ws, i) == SubSeq(ws, 1, i - 1) \o SubSeq(ws, i + 1, Len(ws))

\* for (let i = waves.length - 1; i >= 0; i--) (indices here are 1-based)
RECURSIVE CleanupLoop(_, _, _)
CleanupLoop(ws, i, t) ==
    IF i < 1 THEN ws
    ELSE IF Expired(ws[i], t)
         THEN CleanupLoop(Splice(ws, i), i - 1, t)
         ELSE CleanupLoop(ws, i - 1, t)

\* the same loop run forwards: a splice shifts the next wave under i
RECURSIVE ForwardCleanupLoop(_, _, _)
ForwardCleanupLoop(ws, i, t) ==
    IF i > Len(ws) THEN ws
    ELSE IF Expired(ws[i], t)
         THEN ForwardCleanupLoop(Splice(ws, i), i + 1, t)
         ELSE ForwardCleanupLoop(ws, i + 1, t)

ForwardCleanWaves(ws, t) == ForwardCleanupLoop(ws, 1, t)

CleanWaves(ws, t) == CleanupLoop(ws, Len(ws), t)

----------------------------------------------------------------------------
(* update: activation of the cells near a wave front.                      *)

\* the band cut off at the front: cells behind it are not activated
InWaveBandAhead(hex, wave, t) ==
    LET waveDist == WaveDist(wave, t)
        maxRadius == CeilHex(waveDist + wave.width)
        dist == axialDistance(hex.q, hex.r, wave.q, wave.r)
    IN dist <= maxRadius /\ dist * DistScale >= waveDist
InWaveBand(hex, wave, t) ==
    LET waveDist == WaveDist(wave, t)
        maxRadius == CeilHex(waveDist + wave.width)
        dist == axialDistance(hex.q, hex.r, wave.q, wave.r)
    IN dist <= maxRadius /\ dist * DistScale >= waveDist - wave.width

ActivatedByWaves(hs, ws, t) ==
    { key \in DOMAIN hs : \E i \in 1..Len(ws) : InWaveBand(hs[key], ws[i], t) }

----------------------------------------------------------------------------
(* update: the pass over the active cells.                                 *)

\* the falloff applied on both sides of the width test
WaveTermNoWidth(hex, wave, t) ==
    LET dist == axialDistance(hex.q, hex.r, wave.q, wave.r)
        diff == Abs(dist * DistScale - WaveDist(wave, t))
    IN IF dist > WaveRange THEN 0
       ELSE Falloff(Min(diff, 2 * wave.width), wave.width)

\* what one wave adds to waveIntensity for one cell
WaveTerm(hex, wave, t) ==
    LET dist == axialDistance(hex.q, hex.r, wave.q, wave.r)
        diff == Abs(dist * DistScale - WaveDist(wave, t))
    IN IF dist > WaveRange THEN 0
       ELSE IF diff < wave.width THEN Falloff(diff, wave.width)
       ELSE 0

\* for (const wave of this.waves) waveIntensity += ...
RECURSIVE WaveSum(_, _, _, _)
WaveSum(hex, ws, i, t) ==
    IF i > Len(ws) THEN 0
    ELSE WaveTerm(hex, ws[i], t) + WaveSum(hex, ws, i + 1, t)

\* the sum left unclamped
WaveIntensityUnclamped(hex, ws, t) == WaveSum(hex, ws, 1, t)

\* waveIntensity = Math.min(waveIntensity, 1.0)
WaveIntensity(hex, ws, t) == Min(WaveSum(hex, ws, 1, t), MaxWaveIntensity)

LerpTarget(hex, ws, t) == hex.targetIntensity + WaveIntensity(hex, ws, t)

\* the condition of the lerp branch
Changing(hex, target) ==
    GtEps(Abs(hex.intensity - target)) \/ GtEps(hex.intensity)

\* the lerp with the frame delta left out
LerpNoDelta(intensity, target, deltaTime) ==
    intensity + (target - intensity) * LerpSpeed
\* hex.intensity += (target - hex.intensity) * lerpSpeed * deltaTime
Lerp(intensity, target, deltaTime) ==
    intensity + RoundDiv((target - intensity) * LerpSpeed * deltaTime, TicksPerSec)

HexAfterUpdate(hex, ws, t, deltaTime) ==
    LET target == LerpTarget(hex, ws, t) IN
    IF Changing(hex, target)
    THEN [hex EXCEPT !.intensity = Lerp(hex.intensity, target, deltaTime)]
    ELSE hex

\* the target test turned round: a dark cell is dropped if it has a target
RetiredWithTarget(hex, ws, t) ==
    /\ ~Changing(hex, LerpTarget(hex, ws, t))
    /\ LtEps(Abs(hex.intensity))
    /\ GtEps(Abs(hex.targetIntensity))
\* the else branch: drop a cell that is dark and has no target
Retired(hex, ws, t) ==
    /\ ~Changing(hex, LerpTarget(hex, ws, t))
    /\ LtEps(Abs(hex.intensity))
    /\ LtEps(Abs(hex.targetIntensity))

\* the colour write reaching one vertex short: i < 11
SetVerticesShort(hex) == hex.colorIndex..(hex.colorIndex + 10)
\* for (let i = 0; i < 12; i++) colorAttribute.setXYZ(hex.colorIndex + i, ...):
\* the vertices written for a cell
SetVertices(hex) == hex.colorIndex..(hex.colorIndex + 11)

\* block b, holding entry, after the cells of writers have written their
\* vertices, each with the colour of its new intensity in hs; a single
\* writer whose vertices cover the block leaves its colour on all of it
BlockAfterWrite(entry, hs, writers, b) ==
    IF writers = {} THEN entry
    ELSE IF \E key \in writers :
               /\ writers = {key}
               /\ VerticesPerHex * b \in SetVertices(hs[key])
               /\ VerticesPerHex * b + 11 \in SetVertices(hs[key])
    THEN ColorOf(hs[CHOOSE key \in writers : TRUE].intensity)
    ELSE Pack([j \in 1..VerticesPerHex |->
                 IF \E key \in writers :
                       VerticesPerHex * b + j - 1 \in SetVertices(hs[key])
                 THEN ColorOf(hs[CHOOSE key \in writers :
                                   VerticesPerHex * b + j - 1 \in SetVertices(hs[key])
                                ].intensity)
                 ELSE Unpack(entry)[j]])

\* for (const key of this.activeHexes): the cells of lit, with their new
\* intensities in hs, write their vertices into the color attribute.  The
\* 12 vertices from a colorIndex on reach into block b only from a
\* colorIndex within 11 of its first vertex.
ColorsAfterWrite(buf, hs, lit) ==
    [b \in DOMAIN buf |->
        CHOOSE entry \in
            { BlockAfterWrite(buf[b], hs, writers, b) :
                writers \in { { key \in lit :
                                  /\ hs[key].colorIndex >= VerticesPerHex * b - 11
                                  /\ hs[key].colorIndex <= VerticesPerHex * b + 11 } } } :
            TRUE]

\* update(deltaTime) with performance.now() / 1000 reading t; the cleaned
\* list, the visited set and the set of cells that take the lerp branch are
\* each computed once per call
GridUpdate(t, deltaTime) ==
    \E ws \in {CleanWaves(waves, t)} :
    \E act \in {(activeHexes \cup ActivatedByWaves(hexes, ws, t)) \cap DOMAIN hexes} :
    \E lit \in {{ key \in act : Changing(hexes[key], LerpTarget(hexes[key], ws, t)) }} :
       /\ waves' = ws
       /\ hexes' = [key \in DOMAIN hexes |->
                        IF key \in act
                        THEN HexAfterUpdate(hexes[key], ws, t, deltaTime)
                        ELSE hexes[key]]
       /\ activeHexes' = { key \in act : ~Retired(hexes[key], ws, t) }
       /\ colors' = ColorsAfterWrite(colors, hexes', lit)
       /\ Called("update", 0, 0, deltaTime, "empty")
       /\ UNCHANGED <<hoveredHex, group, disposed, meshCount>>

update(deltaTime) ==
    /\ GridUpdate(now, deltaTime)
    /\ UNCHANGED now
    /\ UNCHANGED appVars

----------------------------------------------------------------------------
(* placeTile.                                                              *)

\* a placeTile that leaves the old mesh in the group
GroupAfterRemoveLeak(g, old) == g

\* this.group.remove(hex.tileMesh)
GroupAfterRemove(g, old) == IF old # NoMesh THEN g \ {old} ELSE g

\* this.tileRenderer.disposeMesh(hex.tileMesh)
DisposedAfter(d, old) == IF old # NoMesh THEN [d EXCEPT ![old] = @ + 1] ELSE d

\* a placeTile that puts the cell's light out
HexAfterPlaceDark(hex, mesh, type) ==
    [hex EXCEPT !.tileMesh = mesh, !.tileType = type, !.intensity = 0,
                !.targetIntensity = 0]

\* a placeTile that builds the cell record anew and loses its colorIndex
HexAfterPlaceFresh(hex, mesh, type) ==
    [hex EXCEPT !.tileMesh = mesh, !.tileType = type, !.colorIndex = 0]

\* hex.tileMesh = ...; hex.tileType = type
HexAfterPlace(hex, mesh, type) ==
    [hex EXCEPT !.tileMesh = mesh, !.tileType = type]

\* the cells, the group, the dispose counts and the number of meshes made,
\* after placeTile(q, r, type) on the ones given
AfterPlaceTile(hs, g, d, n, q, r, type) ==
    LET key == coordToKey(q, r) IN
    IF key \notin DOMAIN hs
    THEN [hexes |-> hs, group |-> g, disposed |-> d, meshCount |-> n]
    ELSE LET old == hs[key].tileMesh
             g1 == GroupAfterRemove(g, old)
             d1 == DisposedAfter(d, old)
             made == type # "empty"
             \* createTileMesh: a new mesh, never disposed
             mesh == IF made THEN n + 1 ELSE NoMesh
         IN [ hexes |-> [hs EXCEPT ![key] = HexAfterPlace(hs[key], mesh, type)],
              group |-> IF made THEN g1 \cup {mesh} ELSE g1,
              disposed |-> IF made THEN Append(d1, 0) ELSE d1,
              meshCount |-> IF made THEN n + 1 ELSE n ]

placeTile(q, r, type) ==
    \E res \in {AfterPlaceTile(hexes, group, disposed, meshCount, q, r, type)} :
       /\ Called("placeTile", q, r, 0, type)
       /\ hexes' = res.hexes
       /\ group' = res.group
       /\ disposed' = res.disposed
       /\ meshCount' = res.meshCount
       /\ UNCHANGED <<activeHexes, waves, colors, hoveredHex, now>>
       /\ UNCHANGED appVars

----------------------------------------------------------------------------
(* The clock.                                                              *)

Tick(d) ==
    /\ now + d <= MaxTime
    /\ now' = now + d
    /\ last' = [last EXCEPT !.op = "tick", !.arg = d]
    /\ UNCHANGED <<hexes, activeHexes, waves, colors, hoveredHex, group, disposed,
                   meshCount>>
    /\ UNCHANGED appVars

----------------------------------------------------------------------------
(* App (src/src/main.ts): the pointer handlers.  A handler runs to its end *)
(* before another event is served; handleMouseDown alone gives way, at its *)
(* await of AudioEngine.initialize().                                      *)

\* private interactionMode: 'tile' | 'wave' = 'tile', assigned nowhere else
interactionMode == "tile"

\* the radius of the grid the App builds, and of its own range test
AppRadius == Radius

\* the cell under the pointer: worldToAxial of the point hit, Null when the
\* ray meets no ground
PointerCell(a) ==
    IF a.mouse = NoHit THEN NullHex
    ELSE worldToAxial(a.mouse.x, a.mouse.z)

\* the grid object as one value
GridState ==
    [ hexes |-> hexes, activeHexes |-> activeHexes, hoveredHex |-> hoveredHex,
      group |-> group, disposed |-> disposed, meshCount |-> meshCount,
      waves |-> waves ]

GridAfterSetHover(g, q, r) ==
    [g EXCEPT !.hexes = HexesAfterHover(g.hexes, g.hoveredHex, q, r),
              !.activeHexes = ActiveAfterHover(g.hexes, g.activeHexes, g.hoveredHex, q, r),
              !.hoveredHex = HoveredAfterHover(g.hexes, g.hoveredHex, q, r)]

GridAfterPlaceTile(g, q, r, type) ==
    LET res == AfterPlaceTile(g.hexes, g.group, g.disposed, g.meshCount, q, r, type)
    IN [g EXCEPT !.hexes = res.hexes, !.group = res.group,
                 !.disposed = res.disposed, !.meshCount = res.meshCount]

\* triggerInteraction(q, r): the grid and the App after it
GridAfterInteraction(g, a, q, r) ==
    IF a.lastTriggeredHex = coordToKey(q, r) THEN g
    ELSE [g EXCEPT !.waves = WavesAfterTrigger(g.waves, q, r, now)]

AppAfterInteraction(a, q, r) ==
    IF a.lastTriggeredHex = coordToKey(q, r) THEN a
    ELSE [a EXCEPT !.lastTriggeredHex = coordToKey(q, r)]

\* handleInput(isMove), run with the App fields a on the grid g
GridAfterInput(g, a, isMove) ==
    LET c == PointerCell(a)
        q == c[1]
        r == c[2]
    IN IF a.mouse # NoHit /\ axialDistance(0, 0, q, r) <= AppRadius
       THEN LET g1 == IF isMove THEN GridAfterSetHover(g, q, r) ELSE g
            IN IF a.isMouseDown
               THEN IF interactionMode = "tile"
                    THEN GridAfterPlaceTile(g1, q, r, a.selectedType)
                    ELSE GridAfterInteraction(g1, a, q, r)
               ELSE g1
       ELSE IF isMove THEN GridAfterSetHover(g, Null, Null) ELSE g

AppAfterInput(a, isMove) ==
    LET c == PointerCell(a) IN
    IF /\ a.mouse # NoHit
       /\ axialDistance(0, 0, c[1], c[2]) <= AppRadius
       /\ a.isMouseDown
       /\ interactionMode # "tile"
    THEN AppAfterInteraction(a, c[1], c[2])
    ELSE a

\* the grid variables take the values of g
GridBecomes(g) ==
    /\ hexes' = g.hexes
    /\ activeHexes' = g.activeHexes
    /\ hoveredHex' = g.hoveredHex
    /\ group' = g.group
    /\ disposed' = g.disposed
    /\ meshCount' = g.meshCount
    /\ waves' = g.waves

\* a press: the cell under the pointer and the selected type when the
\* button went down
Press(a) == [cell |-> PointerCell(a), type |-> a.selectedType]

Handled(op, press, arg) ==
    last' = [op |-> op, q |-> press.cell[1], r |-> press.cell[2], arg |-> arg,
             type |-> press.type, nWaves |-> Len(waves), hovered |-> hoveredHex,
             mesh |-> IF press.cell \in DOMAIN hexes
                      THEN hexes[press.cell].tileMesh ELSE NoMesh]

\* handleMouseDown up to its await.  With the audio engine initialized the
\* awaited promise is already resolved and the rest of the handler runs
\* before any other event; otherwise the handler is suspended on Tone.start()
handleMouseDown ==
    LET a1 == [app EXCEPT !.isMouseDown = TRUE, !.lastTriggeredHex = NoKey] IN
    /\ UNCHANGED <<colors, now, ret, scene, time>>
    /\ IF app.isInitialized
       THEN /\ GridBecomes(GridAfterInput(GridState, a1, FALSE))
            /\ app' = AppAfterInput(a1, FALSE)
            /\ tasks' = tasks
            /\ Handled("handleMouseDown", Press(app), 0)
       ELSE /\ GridBecomes(GridState)
            /\ app' = a1
            /\ tasks' = Append(tasks, Press(app))
            /\ Handled("await", Press(app), 0)

\* initialize() from its await on: when Tone.start() resolved, this.synth =
\* new Tone.PolySynth(...) and isInitialized = true; when it rejected, the
\* catch block logs the error
AfterStart(a, started) ==
    IF started
    THEN [a EXCEPT !.synth = a.synthsMade + 1, !.synthsMade = a.synthsMade + 1,
                   !.isInitialized = TRUE]
    ELSE a

\* Tone.start() settles for the oldest suspended handler: initialize()
\* sets isInitialized when it resolved and logs the error when it rejected,
\* and the handler goes on to handleInput()
handleMouseDownResumed(started) ==
    /\ tasks # <<>>
    /\ LET a1 == AfterStart(app, started) IN
       /\ GridBecomes(GridAfterInput(GridState, a1, FALSE))
       /\ app' = AppAfterInput(a1, FALSE)
    /\ tasks' = Tail(tasks)
    /\ Handled("handleMouseDown", Head(tasks), IF started THEN 1 ELSE 0)
    /\ UNCHANGED <<colors, now, ret, scene, time>>

handleMouseUp ==
    /\ app' = [app EXCEPT !.isMouseDown = FALSE, !.lastTriggeredHex = NoKey]
    /\ Handled("handleMouseUp", Press(app), 0)
    /\ UNCHANGED <<hexes, activeHexes, waves, colors, hoveredHex, group, disposed,
                   meshCount, now, tasks, ret, scene, time>>

\* updateMousePosition(event); handleInput(true)
handleMouseMove(hit) ==
    LET a1 == [app EXCEPT !.mouse = hit] IN
    /\ GridBecomes(GridAfterInput(GridState, a1, TRUE))
    /\ app' = AppAfterInput(a1, TRUE)
    /\ Handled("handleMouseMove", Press(a1), 0)
    /\ UNCHANGED <<colors, now, tasks, ret, scene, time>>

\* TilePalette.selectTile(type), from a click on a palette button
selectTile(type) ==
    /\ app' = [app EXCEPT !.selectedType = type]
    /\ Handled("selectTile", [cell |-> NullHex, type |-> type], 0)
    /\ UNCHANGED <<hexes, activeHexes, waves, colors, hoveredHex, group, disposed,
                   meshCount, now, tasks, ret, scene, time>>

----------------------------------------------------------------------------
(* The callers.  src/src/main.ts drives the grid from its pointer handlers *)
(* (setHover, placeTile, triggerWave) and from the frame loop (update); the *)
(* methods are public, so a caller may also pass any coordinate and value. *)

\* a coordinate past the rim
OffGrid == <<Radius + 1, 0>>

Pointers == {<<0, 0>>, <<1, 0>>}

HoverArgs == Pointers \cup {OffGrid, NullHex}

IntensityArgs == {0 - IScale, IScale \div 2, 2 * IScale}

\* a frame long enough to overshoot is taken only from a bounded intensity
Bounded(deltaTime) ==
    \/ LerpSpeed * deltaTime <= TicksPerSec
    \/ \A key \in DOMAIN hexes : Abs(hexes[key].intensity) <= MaxIntensity * IScale

CanMake(type) == type # "empty" => meshCount < MaxMeshes

\* frame deltas in ticks: lerpSpeed * deltaTime is 1 and 2
DeltaTimes == {20, 40}

TimeSteps == {12}

\* hover, a pointer that starts a wave while fewer than MaxOverlap are in
\* flight, and frames
Next ==
    \/ \E c \in Pointers \cup {NullHex} : setHover(c[1], c[2])
    \/ \E c \in {<<0, 0>>} : Len(waves) < MaxOverlap /\ triggerWave(c[1], c[2])
    \/ \E deltaTime \in DeltaTimes : Bounded(deltaTime) /\ update(deltaTime)
    \/ \E d \in TimeSteps : Tick(d)

Spec == Init /\ [][Next]_vars

\* the wave list: any number of triggers, frames of one length
WaveDeltaTimes == {20}

NextWaves ==
    \/ \E c \in Pointers : triggerWave(c[1], c[2])
    \/ \E deltaTime \in WaveDeltaTimes : update(deltaTime)
    \/ \E d \in TimeSteps : Tick(d)

SpecWaves == Init /\ [][NextWaves]_vars

\* the tile types placed on the cell store: removal and two kinds of tile
StoreTypes == {"empty", "road", "water"}

\* the cell store under direct calls, between frames
NextStore ==
    \/ \E c \in HoverArgs : setHover(c[1], c[2])
    \/ \E c \in HoverArgs, v \in IntensityArgs : updateHexIntensity(c[1], c[2], v)
    \/ \E c \in HoverArgs, type \in StoreTypes :
          CanMake(type) /\ placeTile(c[1], c[2], type)

SpecStore == Init /\ [][NextStore]_vars

\* a radius-4 grid, where cells lie more than six hexes from a wave origin
WideOrigins == {<<0 - WideRadius, 0>>, <<0, 0>>}

WideTimeSteps == {11, 12}

InitWide == InitGrid(WideRadius)

NextWide ==
    \/ \E c \in WideOrigins : Len(waves) <= MaxOverlap /\ triggerWave(c[1], c[2])
    \/ \E deltaTime \in WaveDeltaTimes : update(deltaTime)
    \/ \E d \in WideTimeSteps : Tick(d)

SpecWide == InitWide /\ [][NextWide]_vars

\* every method, each with a small choice of arguments
NextAll ==
    \/ \E c \in {<<0, 0>>, NullHex} : setHover(c[1], c[2])
    \/ \E v \in IntensityArgs : updateHexIntensity(1, 0, v)
    \/ \E type \in {"empty", "road"} : CanMake(type) /\ placeTile(0, 0, type)
    \/ Len(waves) < MaxOverlap /\ triggerWave(0, 0)
    \/ \E deltaTime \in WaveDeltaTimes : update(deltaTime)
    \/ \E d \in TimeSteps : Tick(d)

SpecAll == Init /\ [][NextAll]_vars

\* the App: presses, releases, pointer moves, palette clicks and frames, in
\* any order, with at most MaxPending presses waiting for the audio engine
PointerHits ==
    { axialToWorld(0, 0),
      [x |-> 2 * WorldScale - 1, z |-> 1],
      axialToWorld(AppRadius + 1, 0),
      NoHit }

\* a palette with a button for every tile type, Empty included
PaletteTypesAll == {"empty", "road", "water"}
\* createUI makes a button for each type but Empty; two of them are used
PaletteTypes == {"road", "water"}

\* TilePalette.getSelectedType()
getSelectedType == app.selectedType

NextApp ==
    \/ /\ CanMake(app.selectedType)
       /\ Len(tasks) < MaxPending
       /\ handleMouseDown
    \/ \E started \in BOOLEAN :
          CanMake(app.selectedType) /\ handleMouseDownResumed(started)
    \/ handleMouseUp
    \/ \E hit \in PointerHits : CanMake(app.selectedType) /\ handleMouseMove(hit)
    \/ \E type \in PaletteTypes : selectTile(type)
    \/ \E deltaTime \in WaveDeltaTimes : update(deltaTime)

SpecApp == Init /\ [][NextApp]_vars

\* HexUtils called on its own: integer coordinates up to CoordMax, world
\* points and fractional coordinates over the same region
Coords == (0 - CoordMax)..CoordMax

WorldMax == 3 * WorldScale * CoordMax

WorldCoords == (0 - WorldMax)..WorldMax

FracCoords == (0 - CoordMax * FracDen)..(CoordMax * FracDen)

UtilCalled(op, args) ==
    last' = [op |-> op, q |-> 0, r |-> 0, arg |-> args, type |-> "empty",
             nWaves |-> Len(waves), hovered |-> hoveredHex, mesh |-> NoMesh]

UtilCall(op, args, value) ==
    /\ ret' = value
    /\ UtilCalled(op, args)
    /\ UNCHANGED <<hexes, activeHexes, waves, colors, hoveredHex, group, disposed,
                   meshCount, now, app, tasks, scene, time>>

\* the functions are pure, so a run makes one call, and may then hand what
\* axialToWorld returned, or any other point, to worldToAxial
NextUtils ==
    \/ \E q, r \in Coords :
          /\ last.op = "new"
          /\ UtilCall("axialToWorld", <<q, r>>,
                      <<axialToWorld(q, r).x, axialToWorld(q, r).z>>)
    \/ \E x, z \in WorldCoords :
          /\ last.op \in {"new", "axialToWorld"}
          /\ UtilCall("worldToAxial", <<x, z>>, worldToAxial(x, z))
    \/ \E q, r \in FracCoords :
          /\ last.op = "new"
          /\ UtilCall("axialRound", <<q, r>>, axialRound(q, r))
    \/ \E q1, r1, q2, r2 \in Coords :
          /\ last.op = "new"
          /\ UtilCall("axialDistance", <<q1, r1, q2, r2>>,
                      <<axialDistance(q1, r1, q2, r2)>>)

SpecUtils == Init /\ [][NextUtils]_vars

\* grids of every radius up to MaxRadius, each with a first hover and a
\* first wave on any of its cells
InitAnyGrid == \E radius \in 0..MaxRadius : InitGrid(radius)

NextGrid ==
    \/ \E c \in DOMAIN hexes :
          hoveredHex = NoHex /\ activeHexes = {} /\ setHover(c[1], c[2])
    \/ \E c \in DOMAIN hexes :
          Len(waves) < MaxOverlap /\ triggerWave(c[1], c[2])

SpecGrid == InitAnyGrid /\ [][NextGrid]_vars

----------------------------------------------------------------------------
(* Properties.                                                             *)

Cells == DOMAIN hexes

LastKey == <<last.q, last.r>>

\* C1: the wave list never holds more than 5 waves, its head has the
\* earliest startTime, and a triggerWave issued while 5 are held drops
\* exactly the head and appends the new wave, leaving 5.
C1_EvictsOldest ==
    [][ /\ Len(waves') <= 5
        /\ \A i \in 1..Len(waves') : waves'[1].startTime <= waves'[i].startTime
        /\ (last'.op = "triggerWave" /\ Len(waves) = 5) =>
              /\ Len(waves') = 5
              /\ \A i \in 1..4 : waves'[i] = waves[i + 1]
              /\ waves'[5].q = last'.q /\ waves'[5].r = last'.r
              /\ waves'[5].startTime = now
        /\ (last'.op = "triggerWave" /\ Len(waves) < 5) =>
              /\ Len(waves') = Len(waves) + 1
              /\ SubSeq(waves', 1, Len(waves)) = waves ]_vars

\* a sixth trigger has evicted the head of a list whose waves started at
\* different times
C1_Witness ==
    /\ last.op = "triggerWave"
    /\ last.nWaves = 5
    /\ Len(waves) = 5
    /\ waves[1].startTime < waves[5].startTime
    /\ waves[1].startTime > 0

\* C2: update() at clock time t keeps exactly the waves with
\* (t - startTime) * speed < 6, in their order, and drops the rest.
C2_UpdateKeepsLiveWaves ==
    [][ last'.op = "update" =>
          LET Live(w) == (now - w.startTime) * 25 < 6 * TicksPerSec
          IN waves' = SelectSeq(waves, Live) ]_vars

\* an update dropped two or more expired waves and kept a live one
C2_Witness ==
    /\ last.op = "update"
    /\ Len(waves) >= 1
    /\ last.nWaves >= Len(waves) + 2

\* C3: in every state a cell owns a tile mesh iff its tileType is not
\* Empty, the group holds exactly the meshes the cells own, one per
\* non-Empty cell, and every mesh no cell owns has been disposed exactly
\* once; placeTile on a cell sets its tileType to the type given.
C3_TileMeshOwnership ==
    [][ /\ \A k \in DOMAIN hexes' :
              (hexes'[k].tileMesh # NoMesh) <=> (hexes'[k].tileType # "empty")
        /\ group' = { hexes'[k].tileMesh : k \in
                        { j \in DOMAIN hexes' : hexes'[j].tileMesh # NoMesh } }
        /\ Cardinality(group') =
              Cardinality({ k \in DOMAIN hexes' : hexes'[k].tileType # "empty" })
        /\ \A id \in 1..meshCount' :
              disposed'[id] = IF id \in group' THEN 0 ELSE 1
        /\ (last'.op = "placeTile" /\ <<last'.q, last'.r>> \in DOMAIN hexes) =>
              /\ hexes'[<<last'.q, last'.r>>].tileType = last'.type
              /\ LET old == hexes[<<last'.q, last'.r>>].tileMesh
                 IN old # NoMesh =>
                      /\ old \notin group'
                      /\ disposed[old] = 0
                      /\ disposed'[old] = 1 ]_vars

\* Empty was placed on a cell that held a tile, while another tile stands
C3_Witness ==
    /\ last.op = "placeTile"
    /\ last.type = "empty"
    /\ last.mesh # NoMesh
    /\ LastKey \in Cells
    /\ hexes[LastKey].tileType = "empty"
    /\ group # {}

\* C4: a setHover on a cell other than the hovered one leaves the cell
\* hovered before with targetIntensity 0 and the new cell with 1.0; in
\* every state only the recorded hovered cell has targetIntensity > 0.
C4_HoverMoves ==
    [][ /\ \A k \in DOMAIN hexes' :
              hexes'[k].targetIntensity > 0 => hoveredHex' = k
        /\ (/\ last'.op = "setHover"
            /\ <<last'.q, last'.r>> \in DOMAIN hexes
            /\ hoveredHex # <<last'.q, last'.r>>) =>
              /\ hoveredHex' = <<last'.q, last'.r>>
              /\ hexes'[hoveredHex'].targetIntensity = IScale
              /\ hoveredHex # NoHex => hexes'[hoveredHex].targetIntensity = 0 ]_vars

\* the hover moved from one cell to another
C4_Witness ==
    /\ last.op = "setHover"
    /\ last.hovered # NoHex
    /\ hoveredHex # NoHex
    /\ hoveredHex # last.hovered
    /\ hexes[last.hovered].targetIntensity = 0
    /\ hexes[hoveredHex].targetIntensity = IScale

\* C5: setHover with a coordinate that is no cell sets the hovered cell's
\* targetIntensity to 0, records no hovered cell and changes the
\* targetIntensity of no other cell.
C5_HoverOffGridClears ==
    [][ (last'.op = "setHover" /\ <<last'.q, last'.r>> \notin DOMAIN hexes) =>
          /\ hoveredHex' = NoHex
          /\ hoveredHex # NoHex => hexes'[hoveredHex].targetIntensity = 0
          /\ \A k \in DOMAIN hexes :
                k # hoveredHex => hexes'[k] = hexes[k]
          /\ DOMAIN hexes' = DOMAIN hexes ]_vars

\* setHover(null, null) released a hovered cell while another cell kept a
\* target of its own
C5_Witness ==
    /\ last.op = "setHover"
    /\ LastKey = NullHex
    /\ last.hovered # NoHex
    /\ hoveredHex = NoHex
    /\ \E k \in Cells : k # last.hovered /\ hexes[k].targetIntensity > 0

\* C6: updateHexIntensity and placeTile with a coordinate that is no cell
\* change nothing.
C6_AbsentCellNoOp ==
    [][ (/\ last'.op \in {"updateHexIntensity", "placeTile"}
         /\ <<last'.q, last'.r>> \notin DOMAIN hexes) =>
          UNCHANGED <<hexes, activeHexes, hoveredHex, waves, group,
                      disposed, meshCount>> ]_vars

\* placeTile asked for a tile on a coordinate past the rim, in a grid
\* that holds tiles, targets and a hover
C6_Witness ==
    /\ last.op = "placeTile"
    /\ last.type # "empty"
    /\ LastKey \notin Cells
    /\ group # {}
    /\ activeHexes # {}
    /\ hoveredHex # NoHex

\* C7: no cell's intensity is ever below 0.
C7_IntensityNonNegative ==
    \A k \in Cells : hexes[k].intensity >= 0

\* C8: every targetIntensity lies in [0, 1], and only updateHexIntensity
\* and setHover (which calls it) change a targetIntensity.
C8_TargetClamped ==
    [][ /\ \A k \in DOMAIN hexes' :
              hexes'[k].targetIntensity >= 0 /\ hexes'[k].targetIntensity <= IScale
        /\ (\E k \in DOMAIN hexes :
               hexes'[k].targetIntensity # hexes[k].targetIntensity) =>
              last'.op \in {"updateHexIntensity", "setHover"}
        /\ (last'.op = "updateHexIntensity" /\ <<last'.q, last'.r>> \in DOMAIN hexes) =>
              hexes'[<<last'.q, last'.r>>].targetIntensity =
                 (IF last'.arg < 0 THEN 0
                  ELSE IF last'.arg > IScale THEN IScale ELSE last'.arg) ]_vars

\* updateHexIntensity was given a negative value for a cell that a frame
\* had lit, while another cell is hovered and a wave is in flight
C8_Witness ==
    /\ last.op = "updateHexIntensity"
    /\ last.arg < 0
    /\ LastKey \in Cells
    /\ hexes[LastKey].targetIntensity = 0
    /\ hexes[LastKey].intensity > 0
    /\ hoveredHex # NoHex
    /\ hoveredHex # LastKey
    /\ waves # <<>>

RECURSIVE SeqSum(_)
SeqSum(xs) == IF xs = <<>> THEN 0 ELSE Head(xs) + SeqSum(Tail(xs))

\* the claimed term of one wave at one cell, computed in hundredths of a
\* hex: diff = |axialDistance - (t - startTime) * speed|, width = 1.5,
\* ((1 - diff / width) ^ 3) * 2.0 when diff < width, else 0
ClaimedTerm(hex, wave, t) ==
    LET dist == axialDistance(hex.q, hex.r, wave.q, wave.r)
        diff == Abs(dist * TicksPerSec - (t - wave.startTime) * 25)
        left == 150 - diff
    IN IF diff < 150
       THEN RoundDiv(2 * IScale * left * left * left, 150 * 150 * 150)
       ELSE 0

\* the same term, for a wave whose origin is within 6 hexes of the cell
ClaimedTermInRange(hex, wave, t) ==
    IF axialDistance(hex.q, hex.r, wave.q, wave.r) <= 6
    THEN ClaimedTerm(hex, wave, t) ELSE 0

\* the intensity the frame pass leaves in a cell whose wave contribution
\* is the sum of the given terms, clamped to 1.0
IntensityFor(hex, terms, deltaTime) ==
    LET target == hex.targetIntensity + Min(SeqSum(terms), IScale)
    IN IF GtEps(Abs(hex.intensity - target)) \/ GtEps(hex.intensity)
       THEN hex.intensity
              + RoundDiv((target - hex.intensity) * 5 * deltaTime, TicksPerSec)
       ELSE hex.intensity

\* the cells a frame visits: the active set and the cells near a front
Visited == activeHexes \cup ActivatedByWaves(hexes, waves', now)

\* C9 as stated: in an update, every visited cell moves toward its target
\* plus the clamped sum, over all active waves, of
\* ((1 - diff/width)^3) * 2.0 where diff < width and 0 elsewhere.
C9_ContributionAllWaves ==
    [][ last'.op = "update" =>
          \A k \in Visited :
             hexes'[k].intensity =
                IntensityFor(hexes[k],
                             [i \in 1..Len(waves') |->
                                ClaimedTerm(hexes[k], waves'[i], now)],
                             last'.arg) ]_vars

\* C9 as amended: the sum runs over the active waves whose origin is at
\* axial distance at most 6 from the cell; a wave farther away adds 0.
C9_ContributionInRange ==
    [][ last'.op = "update" =>
          \A k \in Visited :
             hexes'[k].intensity =
                IntensityFor(hexes[k],
                             [i \in 1..Len(waves') |->
                                ClaimedTermInRange(hexes[k], waves'[i], now)],
                             last'.arg) ]_vars

\* after a frame, one cell shows the unclamped sum of two waves' terms and
\* another lies 7 hexes from a wave whose front is within its width
C9_Witness ==
    /\ last.op = "update"
    /\ \E k \in Cells :
          /\ Cardinality({ i \in 1..Len(waves) :
                             ClaimedTermInRange(hexes[k], waves[i], now) > 0 }) >= 2
          /\ hexes[k].intensity < IScale
          /\ hexes[k].intensity =
                SeqSum([i \in 1..Len(waves) |->
                          ClaimedTermInRange(hexes[k], waves[i], now)])
    /\ \E k \in Cells, i \in 1..Len(waves) :
          /\ axialDistance(hexes[k].q, hexes[k].r, waves[i].q, waves[i].r) > 6
          /\ ClaimedTerm(hexes[k], waves[i], now) > 0
          /\ hexes[k].intensity = 0

\* C10: in every frame the wave contribution of every cell lies in [0, 1]
\* and its lerp target is at most 2, however many waves overlap; a cell
\* with no target of its own is never lit above 1.0 by waves alone.
C10_ContributionClamped ==
    \A k \in Cells :
       LET ws == CleanWaves(waves, now)
           contribution == WaveIntensity(hexes[k], ws, now)
       IN /\ contribution >= 0
          /\ contribution <= IScale
          /\ LerpTarget(hexes[k], ws, now) <= 2 * IScale
          /\ hexes[k].targetIntensity = 0 => hexes[k].intensity <= IScale

\* after a frame with five waves held, a cell where three or more waves
\* from different origins overlap, their terms summing to more than 1.0,
\* shows exactly 1.0
C10_Witness ==
    /\ last.op = "update"
    /\ Len(waves) = 5
    /\ \E k \in Cells :
          LET lit == { i \in 1..5 : WaveTerm(hexes[k], waves[i], now) > 0 }
          IN /\ Cardinality(lit) >= 3
             /\ \E i, j \in lit : waves[i].q # waves[j].q
             /\ WaveSum(hexes[k], waves, 1, now) > IScale
             /\ hexes[k].intensity = IScale

\* the distance a wave has travelled and a cell's distance from its origin,
\* both in hundredths of a hex
Travelled(wave, t) == (t - wave.startTime) * 25

FromOrigin(hex, wave) == axialDistance(hex.q, hex.r, wave.q, wave.r) * TicksPerSec

\* C11: in a frame that leaves a single wave, a cell whose axial distance
\* from the origin equals the distance travelled gets 2.0 from the wave
\* before the clamp and 1.0 after it, and a cell at least the width 1.5
\* ahead of or behind the front gets 0; a visited cell moves accordingly.
C11_FrontAndBeyond ==
    [][ (last'.op = "update" /\ Len(waves') = 1) =>
          \A k \in DOMAIN hexes :
             LET w == waves'[1]
                 diff == Abs(FromOrigin(hexes[k], w) - Travelled(w, now))
             IN /\ diff = 0 =>
                      /\ WaveSum(hexes[k], waves', 1, now) = 2 * IScale
                      /\ WaveIntensity(hexes[k], waves', now) = IScale
                      /\ k \in Visited =>
                            hexes'[k].intensity =
                               IntensityFor(hexes[k], <<2 * IScale>>, last'.arg)
                /\ diff >= 150 =>
                      /\ WaveSum(hexes[k], waves', 1, now) = 0
                      /\ WaveIntensity(hexes[k], waves', now) = 0
                      /\ k \in Visited =>
                            hexes'[k].intensity =
                               IntensityFor(hexes[k], <<0>>, last'.arg) ]_vars

\* after a frame with one wave whose front has left the origin, a cell on
\* the front shows 1.0 and a cell within range but off the front shows 0
C11_Witness ==
    /\ last.op = "update"
    /\ Len(waves) = 1
    /\ Travelled(waves[1], now) > 0
    /\ \E k \in Cells :
          /\ FromOrigin(hexes[k], waves[1]) = Travelled(waves[1], now)
          /\ hexes[k].intensity = IScale
    /\ \E k \in Cells :
          /\ Abs(FromOrigin(hexes[k], waves[1]) - Travelled(waves[1], now)) >= 150
          /\ FromOrigin(hexes[k], waves[1]) <= 6 * TicksPerSec
          /\ hexes[k].intensity = 0

\* C12: when the App has handled a mouse press whose pointer lay over the
\* grid cell (q, r), a wave with origin (q, r) is in the wave list.
C12_PressTriggersWave ==
    [][ (last'.op = "handleMouseDown" /\ <<last'.q, last'.r>> \in DOMAIN hexes) =>
          \E i \in 1..Len(waves') :
             waves'[i].q = last'.q /\ waves'[i].r = last'.r ]_vars

\* C13: when handleMouseDown has run to its end for a press over a grid
\* cell, whatever ran while it waited for the audio engine, the cell that
\* was under the pointer when the button went down holds a tile of the
\* selected type (the type selected at the press or at the placement).
C13_PressPlacesTile ==
    [][ (last'.op = "handleMouseDown" /\ <<last'.q, last'.r>> \in DOMAIN hexes) =>
          /\ hexes'[<<last'.q, last'.r>>].tileMesh # NoMesh
          /\ hexes'[<<last'.q, last'.r>>].tileType \in
                {last'.type, app'.selectedType} ]_vars

\* C14: a worldToAxial call on the point axialToWorld(q, r) has just
\* returned, for integers q and r, returns (q, r).
C14_RoundTrip ==
    [][ (/\ last.op = "axialToWorld"
         /\ last'.op = "worldToAxial"
         /\ last'.arg = ret) => ret' = last.arg ]_vars

\* worldToAxial has returned a cell away from both axes for the centre of
\* that cell
C14_Witness ==
    /\ last.op = "worldToAxial"
    /\ ret = <<2, 0 - 3>>
    /\ last.arg = <<WorldScale, 0 - 9 * WorldScale>>

\* the integer nearest to n / FracDen, a tie going up
NearestInt(n) ==
    CHOOSE i \in (0 - 2 * CoordMax - 1)..(2 * CoordMax + 1) :
        0 - FracDen <= 2 * (n - i * FracDen) /\ 2 * (n - i * FracDen) < FracDen

\* the squared distance, up to a constant factor, between the point with
\* fractional axial coordinates (q, r) and the centre of cell c
CentreDist(q, r, c) ==
    LET dq == q - c[1] * FracDen
        dr == r - c[2] * FracDen
    IN dq * dq + dq * dr + dr * dr

Centres == ((0 - CoordMax - 1)..(CoordMax + 1)) \X ((0 - CoordMax - 1)..(CoordMax + 1))

NaiveRound(q, r) == <<NearestInt(q), NearestInt(r)>>

\* C15: axialRound(q, r) returns the independently rounded cube
\* coordinates (q, -q-r, r) with one of them, one whose rounding error is
\* largest, recomputed from the other two; the three sum to 0; for a point
\* with a single nearest cell centre the result is that cell; and where the
\* result differs from rounding q and r on their own, the cell so rounded
\* is not nearer.
C15_AxialRoundNearest ==
    last.op = "axialRound" =>
       LET q == last.arg[1]
           r == last.arg[2]
           in3 == <<q, 0 - q - r, r>>
           naive3 == <<NearestInt(q), NearestInt(0 - q - r), NearestInt(r)>>
           err == [i \in 1..3 |-> Abs(naive3[i] * FracDen - in3[i])]
           out3 == CubeRound(q, r)
           changed == { i \in 1..3 : out3[i] # naive3[i] }
           nearest == { c \in Centres :
                          \A d \in Centres : CentreDist(q, r, c) <= CentreDist(q, r, d) }
       IN /\ ret = <<out3[1], out3[3]>>
          /\ out3[1] + out3[2] + out3[3] = 0
          /\ Cardinality(changed) <= 1
          /\ \A i \in changed : \A j \in 1..3 : err[i] >= err[j]
          /\ Cardinality(nearest) = 1 => nearest = {ret}
          /\ ret # NaiveRound(q, r) =>
                CentreDist(q, r, ret) <= CentreDist(q, r, NaiveRound(q, r))

\* axialRound has returned, for a point off every boundary, a cell that
\* differs from rounding q and r on their own and is strictly nearer
C15_Witness ==
    /\ last.op = "axialRound"
    /\ ret # NaiveRound(last.arg[1], last.arg[2])
    /\ CentreDist(last.arg[1], last.arg[2], ret)
          < CentreDist(last.arg[1], last.arg[2], NaiveRound(last.arg[1], last.arg[2]))
    /\ \A c \in Centres \ {ret} :
          CentreDist(last.arg[1], last.arg[2], ret) < CentreDist(last.arg[1], last.arg[2], c)

\* C16: axialDistance is symmetric, is 0 exactly for equal coordinates,
\* satisfies the triangle inequality, and axialDistance(0, 0, 2, -1) = 2.
C16_DistanceIsMetric ==
    last.op = "axialDistance" =>
       LET q1 == last.arg[1]
           r1 == last.arg[2]
           q2 == last.arg[3]
           r2 == last.arg[4]
       IN /\ ret[1] = axialDistance(q2, r2, q1, r1)
          /\ (ret[1] = 0) <=> (q1 = q2 /\ r1 = r2)
          /\ \A q3, r3 \in Coords :
                axialDistance(q1, r1, q3, r3) <= ret[1] + axialDistance(q2, r2, q3, r3)
          /\ last.arg = <<0, 0, 2, 0 - 1>> => ret[1] = 2

\* axialDistance(0, 0, 2, -1) has returned 2
C16_Witness ==
    /\ last.op = "axialDistance"
    /\ last.arg = <<0, 0, 2, 0 - 1>>
    /\ ret = <<2>>

\* C17: axialDistance(q1, r1, q2, r2) is (|dq| + |dr| + |dq + dr|) / 2 with
\* dq = q1 - q2 and dr = r1 - r2: the numerator is even and the result is
\* a non-negative integer.
C17_DistanceExact ==
    last.op = "axialDistance" =>
       LET dq == last.arg[1] - last.arg[3]
           dr == last.arg[2] - last.arg[4]
           numerator == Abs(dq) + Abs(dr) + Abs(dq + dr)
       IN /\ numerator % 2 = 0
          /\ 2 * ret[1] = numerator
          /\ ret[1] \in Nat

\* axialDistance has returned for coordinates with dq odd, dr odd and of
\* the opposite sign
C17_Witness ==
    /\ last.op = "axialDistance"
    /\ (last.arg[1] - last.arg[3]) % 2 = 1
    /\ last.arg[1] - last.arg[3] > 0
    /\ last.arg[2] - last.arg[4] < 0
    /\ (last.arg[2] - last.arg[4]) % 2 = 1
    /\ ret = <<3>>

\* C18: a grid constructed with radius R holds a cell for (q, r) exactly
\* when (|q| + |r| + |q + r|) / 2 <= R, each under its own key and with its
\* own colorIndex, with intensity 0, targetIntensity 0, tileType Empty and
\* no tile mesh.
C18_GridIsHexagon ==
    last.op = "new" =>
       LET R == last.arg
           box == ((0 - R - 1)..(R + 1)) \X ((0 - R - 1)..(R + 1))
       IN /\ DOMAIN hexes \subseteq box
          /\ \A c \in box :
                (c \in DOMAIN hexes) <=>
                   (Abs(c[1]) + Abs(c[2]) + Abs(c[1] + c[2]) <= 2 * R)
          /\ \A k \in DOMAIN hexes :
                /\ hexes[k].q = k[1] /\ hexes[k].r = k[2]
                /\ hexes[k].intensity = 0
                /\ hexes[k].targetIntensity = 0
                /\ hexes[k].tileType = "empty"
                /\ hexes[k].tileMesh = NoMesh
                /\ \A j \in DOMAIN hexes :
                      j # k => hexes[j].colorIndex # hexes[k].colorIndex
          /\ group = {} /\ meshCount = 0

\* a grid of radius 3 was constructed: it has the corner (3, -3) and the
\* edge cell (-2, -1) and leaves out (3, 1) and (2, 2)
C18_Witness ==
    /\ last.op = "new"
    /\ last.arg = 3
    /\ <<3, 0 - 3>> \in Cells
    /\ <<0 - 2, 0 - 1>> \in Cells
    /\ <<3, 1>> \notin Cells
    /\ <<2, 2>> \notin Cells

\* C19: a grid constructed with radius R >= 0 holds exactly
\* 3R^2 + 3R + 1 cells; radius 2 gives 19.
C19_CellCount ==
    last.op = "new" =>
       /\ Cardinality(DOMAIN hexes) = 3 * last.arg * last.arg + 3 * last.arg + 1
       /\ last.arg = 2 => Cardinality(DOMAIN hexes) = 19

\* a grid of radius 2 was constructed and holds 19 cells
C19_Witness ==
    /\ last.op = "new"
    /\ last.arg = 2
    /\ Cardinality(Cells) = 19

\* C20: no call adds or removes a cell or changes a cell's q, r or
\* colorIndex.
C20_CellsFixed ==
    [][ /\ DOMAIN hexes' = DOMAIN hexes
        /\ \A k \in DOMAIN hexes :
              /\ hexes'[k].q = hexes[k].q
              /\ hexes'[k].r = hexes[k].r
              /\ hexes'[k].colorIndex = hexes[k].colorIndex ]_vars

\* a tile was placed on a cell that a frame had lit, with a wave in
\* flight and a target set on another cell: every kind of call has acted
C20_Witness ==
    /\ last.op = "placeTile"
    /\ LastKey \in Cells
    /\ hexes[LastKey].tileType # "empty"
    /\ hexes[LastKey].colorIndex > 0
    /\ hexes[LastKey].intensity > 0
    /\ hoveredHex = LastKey
    /\ waves # <<>>
    /\ \E k \in Cells : k # LastKey /\ hexes[k].targetIntensity > 0

\* the vertices of a cell: the 12 from its colorIndex on
VerticesOf(hex) == hex.colorIndex..(hex.colorIndex + 11)

\* C21: every cell has its own colorIndex, a multiple of 12, and the ranges
\* [colorIndex, colorIndex + 12) partition the 12 * N vertices of the
\* buffer; after every step all 12 vertices of a cell hold the colour
\* computed from the cell's intensity; and a vertex whose colour a step
\* changes belongs to a cell whose intensity that step changed.
C21_ColorsInSync ==
    [][ /\ VertexCount(colors') = 12 * Cardinality(DOMAIN hexes')
        /\ \A k \in DOMAIN hexes' :
              /\ hexes'[k].colorIndex % 12 = 0
              /\ hexes'[k].colorIndex >= 0
              /\ hexes'[k].colorIndex + 12 <= 12 * Cardinality(DOMAIN hexes')
              /\ \A j \in DOMAIN hexes' :
                    j # k => hexes'[j].colorIndex # hexes'[k].colorIndex
              /\ \A v \in VerticesOf(hexes'[k]) :
                    VertexColor(colors', v) = ColorOf(hexes'[k].intensity)
        /\ \A k \in DOMAIN hexes :
              (\E v \in VerticesOf(hexes[k]) :
                   VertexColor(colors', v) # VertexColor(colors, v)) =>
                 /\ last'.op = "update"
                 /\ hexes'[k].intensity # hexes[k].intensity ]_vars

\* a frame has left one cell in overdrive, above 1.0, and another cell lit
\* below 1.0, each with its own colour on all its vertices
C21_Witness ==
    /\ last.op = "update"
    /\ \E j, k \in Cells :
          /\ hexes[j].intensity > IScale
          /\ hexes[k].intensity > 0 /\ hexes[k].intensity < IScale
          /\ \A v \in VerticesOf(hexes[j]) :
                VertexColor(colors, v) = ColorOf(hexes[j].intensity)
          /\ \A v \in VerticesOf(hexes[k]) :
                VertexColor(colors, v) = ColorOf(hexes[k].intensity)
          /\ VertexColor(colors, hexes[j].colorIndex)
                # VertexColor(colors, hexes[k].colorIndex)

----------------------------------------------------------------------------
(* TimeManager (src/src/time/TimeManager.ts).  currentTime is kept in clock *)
(* ticks of game time (HourTicks to the hour); emitted is the list of       *)
(* events the last call emitted, in order, and lastEmitted the period of    *)
(* the last timeOfDayChanged ever emitted.                                 *)

MORNING_START == 5
DAY_START == 10
EVENING_START == 17
NIGHT_START == 20
DayTicks == 24 * HourTicks

Emitted(name, t, period, playing) ==
    [name |-> name, time |-> t, period |-> period, playing |-> playing]

\* a period boundary one hour late
getTimeOfDayLate(t) ==
    IF t >= (MORNING_START + 1) * HourTicks /\ t < DAY_START * HourTicks THEN "morning"
    ELSE IF t >= DAY_START * HourTicks /\ t < EVENING_START * HourTicks THEN "day"
    ELSE IF t >= EVENING_START * HourTicks /\ t < NIGHT_START * HourTicks THEN "evening"
    ELSE "night"
getTimeOfDay(t) ==
    IF t >= MORNING_START * HourTicks /\ t < DAY_START * HourTicks THEN "morning"
    ELSE IF t >= DAY_START * HourTicks /\ t < EVENING_START * HourTicks THEN "day"
    ELSE IF t >= EVENING_START * HourTicks /\ t < NIGHT_START * HourTicks THEN "evening"
    ELSE "night"

checkTimeOfDay(tm) ==
    LET currentToD == getTimeOfDay(tm.currentTime)
    IN  IF tm.lastTimeOfDay # currentToD
        THEN [tm EXCEPT !.lastTimeOfDay = currentToD,
                        !.emitted = Append(@, Emitted("timeOfDayChanged", tm.currentTime,
                                                      currentToD, tm.isPlaying)),
                        !.lastEmitted = currentToD]
        ELSE tm

\* update(deltaTime): nothing while paused; else the clock advances, wraps
\* once at 24, and timeChanged and the period check follow
TimeAfterUpdate(tm, deltaTime) ==
    IF ~tm.isPlaying THEN [tm EXCEPT !.emitted = <<>>]
    ELSE LET advanced == tm.currentTime + deltaTime * tm.timeScale
             wrapped == advanced >= DayTicks
             t == IF wrapped THEN advanced - DayTicks ELSE advanced
             day == IF wrapped
                    THEN <<Emitted("dayChanged", t, NoPeriod, tm.isPlaying)>>
                    ELSE <<>>
         IN  checkTimeOfDay([tm EXCEPT
                 !.currentTime = t,
                 !.emitted = day \o <<Emitted("timeChanged", t, NoPeriod, tm.isPlaying)>>])

\* setTime(time): Math.max(0, Math.min(24, time))
TimeAfterSetTime(tm, t) ==
    LET clamped == Max(0, Min(DayTicks, t))
    IN  checkTimeOfDay([tm EXCEPT
            !.currentTime = clamped,
            !.emitted = <<Emitted("timeChanged", clamped, NoPeriod, tm.isPlaying)>>])

TimeAfterSetPlaying(tm, playing) ==
    [tm EXCEPT !.isPlaying = playing,
               !.emitted = <<Emitted("playStateChanged", tm.currentTime, NoPeriod, playing)>>]

getTime == time.currentTime

TimeCalled(op, arg) ==
    last' = [last EXCEPT !.op = op, !.arg = arg]

timeOthers == <<hexes, activeHexes, waves, colors, hoveredHex, group, disposed,
                meshCount, now, app, tasks, ret, scene>>

timeUpdate(deltaTime) ==
    /\ time' = TimeAfterUpdate(time, deltaTime)
    /\ TimeCalled("time.update", deltaTime)
    /\ UNCHANGED timeOthers

setTime(t) ==
    /\ time' = TimeAfterSetTime(time, t)
    /\ TimeCalled("setTime", t)
    /\ UNCHANGED timeOthers

togglePlayPause ==
    /\ time' = TimeAfterSetPlaying(time, ~time.isPlaying)
    /\ TimeCalled("togglePlayPause", 0)
    /\ UNCHANGED timeOthers

setPlaying(playing) ==
    /\ time' = TimeAfterSetPlaying(time, playing)
    /\ TimeCalled("setPlaying", IF playing THEN 1 ELSE 0)
    /\ UNCHANGED timeOthers

\* frame gaps of one hour, five hours and thirty hours (a page left hidden)
FrameGaps == {HourTicks, 5 * HourTicks, 30 * HourTicks}

\* the hours setTime is called with: the presets 6, 12 and 20, the ends of
\* the slider, and values beyond both ends
SetTimeHours == {0 - 1, 0, 6, 12, 20, 24, 25}

\* the clock, its controls, and frames while the clock is below MaxHour
NextTime ==
    \/ \E deltaTime \in FrameGaps :
          /\ time.currentTime + deltaTime <= MaxHour * HourTicks
          /\ timeUpdate(deltaTime)
    \/ \E h \in SetTimeHours : setTime(h * HourTicks)
    \/ togglePlayPause
    \/ \E playing \in BOOLEAN : setPlaying(playing)

SpecTime == Init /\ [][NextTime]_vars

\* the period of an hour count, as the documentation of TimeOfDay gives it
PeriodOf(t) ==
    IF 5 * HourTicks <= t /\ t < 10 * HourTicks THEN "morning"
    ELSE IF 10 * HourTicks <= t /\ t < 17 * HourTicks THEN "day"
    ELSE IF 17 * HourTicks <= t /\ t < 20 * HourTicks THEN "evening"
    ELSE "night"

EventNames(evs) == [i \in DOMAIN evs |-> evs[i].name]

\* C29: getTime() is within [0, 24] in every state; setTime leaves the
\* clamp of its argument; an update of a running clock that reaches 24 or
\* more emits dayChanged once, before its timeChanged, and one that does
\* not emits no dayChanged; an update of a paused clock changes nothing
\* and emits nothing.
C29_TimeInRange ==
    [][ /\ getTime' >= 0 /\ getTime' <= DayTicks
        /\ last'.op = "setTime" =>
              getTime' = Max(0, Min(DayTicks, last'.arg))
        /\ (last'.op = "time.update" /\ time.isPlaying) =>
              LET names == EventNames(time'.emitted)
              IN  IF time.currentTime + last'.arg >= DayTicks
                  THEN /\ Len(names) >= 2
                       /\ names[1] = "dayChanged" /\ names[2] = "timeChanged"
                       /\ \A i \in 2..Len(names) : names[i] # "dayChanged"
                       /\ getTime' = time.currentTime + last'.arg - DayTicks
                  ELSE /\ names[1] = "timeChanged"
                       /\ \A i \in 1..Len(names) : names[i] # "dayChanged"
                       /\ getTime' = time.currentTime + last'.arg
        /\ (last'.op = "time.update" /\ ~time.isPlaying) =>
              /\ time'.emitted = <<>>
              /\ [time' EXCEPT !.emitted = time.emitted] = time ]_vars

\* C30: a check (after update of a running clock, or setTime) emits
\* timeOfDayChanged exactly when the period of the current time differs
\* from the period of the previous check, or there was no previous check;
\* the emitted period is the period of the current time, and it differs
\* from the period of the previous emission.
C30_PeriodChange ==
    [][ (last'.op = "setTime" \/ (last'.op = "time.update" /\ time.isPlaying)) =>
          LET evs == time'.emitted
              tod == { i \in DOMAIN evs : evs[i].name = "timeOfDayChanged" }
          IN  /\ Cardinality(tod) <= 1
              /\ (tod # {}) <=> (time.lastTimeOfDay = NoPeriod
                                   \/ time.lastTimeOfDay # PeriodOf(getTime'))
              /\ \A i \in tod :
                    /\ evs[i].period = PeriodOf(getTime')
                    /\ evs[i].period # time.lastEmitted
                    /\ i = Len(evs)
              /\ time'.lastTimeOfDay = PeriodOf(getTime') ]_vars

\* a setTime or update has just carried the clock from one period into
\* another after an earlier emission, and emitted the new period
C30_Witness ==
    /\ last.op \in {"setTime", "time.update"}
    /\ Len(time.emitted) >= 2
    /\ time.emitted[Len(time.emitted)].name = "timeOfDayChanged"
    /\ time.emitted[Len(time.emitted)].period = "morning"
    /\ time.currentTime >= 5 * HourTicks /\ time.currentTime < 10 * HourTicks
    /\ time.emitted[1].name = "dayChanged"

----------------------------------------------------------------------------
(* Scene (src/src/core/Scene.ts): the frame loop.  The callback is        *)
(* App.update ("update"), or a callback that after App.update calls        *)
(* stopAnimation ("once").  The browser serves the pending frame requests *)
(* one at a time, in any order.                                            *)

Callbacks == {"update", "once"}

\* App.update: the game clock, then the grid
AppUpdate(deltaTime) ==
    /\ time' = TimeAfterUpdate(time, deltaTime)
    /\ GridUpdate(now, deltaTime)

\* stopAnimation: the frame named by animationId is cancelled
SceneAfterStop(sc) ==
    [sc EXCEPT !.requests = IF sc.animationId # Null THEN @ \ {sc.animationId} ELSE @,
               !.animationId = Null,
               !.stopped = TRUE]

\* animate, up to the end of the callback: the next frame is requested and
\* its id kept, the frame gap measured, the callback invoked
SceneAfterAnimate(sc, t) ==
    [sc EXCEPT !.animationId = sc.made + 1,
               !.requests = @ \cup {sc.made + 1},
               !.made = @ + 1,
               !.lastTime = t,
               !.calls = IF sc.animationCallback # NoCallback THEN @ + 1 ELSE @]

animate(sc) ==
    /\ sc.made < MaxRequests
    /\ scene' = IF sc.animationCallback = "once"
                THEN SceneAfterStop(SceneAfterAnimate(sc, now))
                ELSE SceneAfterAnimate(sc, now)
    /\ IF sc.animationCallback # NoCallback
       THEN AppUpdate(now - sc.lastTime)
       ELSE UNCHANGED <<time, hexes, activeHexes, waves, colors, hoveredHex,
                        group, disposed, meshCount, last>>
    /\ UNCHANGED <<now, app, tasks, ret>>

startAnimation(callback) ==
    animate([scene EXCEPT !.animationCallback = callback, !.stopped = FALSE])

\* the browser runs the frame request id
frame(id) ==
    /\ id \in scene.requests
    /\ animate([scene EXCEPT !.requests = @ \ {id}])

stopAnimation ==
    /\ scene' = SceneAfterStop(scene)
    /\ TimeCalled("stopAnimation", 0)
    /\ UNCHANGED <<hexes, activeHexes, waves, colors, hoveredHex, group, disposed,
                   meshCount, now, app, tasks, ret, time>>

NextScene ==
    \/ \E callback \in Callbacks : startAnimation(callback)
    \/ \E id \in 1..MaxRequests : frame(id)
    \/ stopAnimation
    \/ \E d \in TimeSteps : Tick(d)

SpecScene == Init /\ [][NextScene]_vars

\* C22: once stopAnimation has returned, and until startAnimation is called
\* again, no frame request is pending and the callback is not invoked.
C22_StopHalts ==
    [][ /\ scene'.stopped => scene'.requests = {}
        /\ (scene.stopped /\ scene'.stopped) => scene'.calls = scene.calls ]_vars

----------------------------------------------------------------------------
(* Frames of at most 0.2 s.  A frame advances the clock by its delta and   *)
(* runs update, as Scene.animate does with the gap it measured.  The       *)
(* pointer acts until QuietTime; from then on the hover can only be        *)
(* cleared.  Past MaxClock the clock is no longer advanced: every wave has *)
(* expired by then, and update reads the clock only to age the waves.      *)

\* the life of a wave in ticks: MaxWaveDistance hexes at WaveSpeed
WaveLife == (MaxWaveDistance * TicksPerSec) \div WaveSpeed

QuietTime == MaxClock - WaveLife

\* lerpSpeed * deltaTime is 1/2 and 1
SettleDeltaTimes == {10, 20}

Frame(deltaTime) ==
    /\ now' = Min(now + deltaTime, MaxClock)
    /\ GridUpdate(now', deltaTime)
    /\ UNCHANGED appVars

NextSettle ==
    \/ \E c \in {<<0, 0>>, <<0 - 1, 0>>} : now <= QuietTime /\ setHover(c[1], c[2])
    \/ hoveredHex # NoHex /\ setHover(Null, Null)
    \/ \E c \in {<<1, 0>>} :
          now <= QuietTime /\ Len(waves) <= MaxOverlap /\ triggerWave(c[1], c[2])
    \/ \E deltaTime \in SettleDeltaTimes : Frame(deltaTime)

SpecSettle == Init /\ [][NextSettle]_vars

\* one hovered cell and waves from one origin, to be followed to rest
NextCalm ==
    \/ now <= QuietTime /\ setHover(0, 0)
    \/ hoveredHex # NoHex /\ setHover(Null, Null)
    \/ now <= QuietTime /\ Len(waves) < MaxOverlap /\ triggerWave(1, 0)
    \/ \E deltaTime \in SettleDeltaTimes : Frame(deltaTime)

SpecCalm == Init /\ [][NextCalm]_vars

\* the frame loop keeps running: Scene.animate requests the next frame
\* before it does anything else
SpecCalmFair ==
    SpecCalm /\ WF_vars(\E deltaTime \in SettleDeltaTimes : Frame(deltaTime))

PassSet == (activeHexes \cup ActivatedByWaves(hexes, waves', now')) \cap DOMAIN hexes

\* C24: a cell outside the active set when the pass of an update runs has
\* |intensity| < 0.001, targetIntensity < 0.001 and a zero term from every
\* wave held, and the update leaves it as it was.
C24_SkippedAreDark ==
    [][ last'.op = "update" =>
          \A key \in DOMAIN hexes \ PassSet :
             /\ LtEps(Abs(hexes[key].intensity))
             /\ LtEps(hexes[key].targetIntensity)
             /\ \A i \in 1..Len(waves') : WaveTerm(hexes[key], waves'[i], now') = 0
             /\ hexes'[key] = hexes[key] ]_vars

\* a frame has run with a wave in flight, updating a lit cell and skipping
\* another
C24_Witness ==
    /\ last.op = "update"
    /\ waves # <<>>
    /\ \E key \in activeHexes : hexes[key].intensity > 0
    /\ \E key \in DOMAIN hexes :
          key \notin activeHexes /\ hexes[key].intensity = 0

\* C25: with lerpSpeed * deltaTime within [0, 1], every intensity stays
\* within [0, 2], and an update leaves each cell no further from the
\* frame's target than it was.
C25_OverdriveBounded ==
    [][ /\ \A key \in DOMAIN hexes' :
              hexes'[key].intensity >= 0 /\ hexes'[key].intensity <= 2 * IScale
        /\ last'.op = "update" =>
              \A key \in DOMAIN hexes :
                 LET target == hexes[key].targetIntensity
                               + WaveIntensity(hexes[key], waves', now')
                 IN  Abs(hexes'[key].intensity - target)
                        <= Abs(hexes[key].intensity - target) ]_vars

\* a frame has driven a hovered cell under two waves started together
\* above 1.0, towards a target of 2.0
C25_Witness ==
    /\ last.op = "update"
    /\ Len(waves) >= 2
    /\ \E key \in DOMAIN hexes :
          /\ hexes[key].targetIntensity = IScale
          /\ WaveIntensity(hexes[key], waves, now) = MaxWaveIntensity
          /\ hexes[key].intensity > IScale

\* C26: placeTile(q, r, type) leaves every other cell as it was, and of the
\* cell (q, r) it changes the tileType and the tile mesh at most; the
\* hovered cell, the wave list, the active set and the colour buffer stay
\* as they were.
C26_PlaceTileFrame ==
    [][ last'.op = "placeTile" =>
          /\ DOMAIN hexes' = DOMAIN hexes
          /\ \A key \in DOMAIN hexes :
                IF key = <<last'.q, last'.r>>
                THEN /\ hexes'[key].intensity = hexes[key].intensity
                     /\ hexes'[key].targetIntensity = hexes[key].targetIntensity
                     /\ hexes'[key].q = hexes[key].q /\ hexes'[key].r = hexes[key].r
                     /\ hexes'[key].colorIndex = hexes[key].colorIndex
                     /\ hexes'[key].tileType = last'.type
                ELSE hexes'[key] = hexes[key]
          /\ hoveredHex' = hoveredHex
          /\ waves' = waves
          /\ activeHexes' = activeHexes
          /\ colors' = colors ]_vars

\* a tile has just been placed on a hovered, lit and active cell while a
\* wave was in flight
C26_Witness ==
    /\ last.op = "placeTile" /\ last.type = "road"
    /\ <<last.q, last.r>> \in activeHexes
    /\ hoveredHex # NoHex
    /\ hexes[<<last.q, last.r>>].tileType = "road"
    /\ hexes[<<last.q, last.r>>].intensity > 0
    /\ hexes[<<last.q, last.r>>].targetIntensity = IScale
    /\ waves # <<>>

----------------------------------------------------------------------------
(* Tile palette and tile removal.                                          *)

\* the pointer over two cells and off the ground plane
PaletteHits == {axialToWorld(0, 0), axialToWorld(1, 0), NoHit}

\* pointer events and palette clicks, between frames
NextPalette ==
    \/ /\ CanMake(app.selectedType)
       /\ Len(tasks) < MaxPending
       /\ handleMouseDown
    \/ \E started \in BOOLEAN :
          CanMake(app.selectedType) /\ handleMouseDownResumed(started)
    \/ handleMouseUp
    \/ \E hit \in PaletteHits : CanMake(app.selectedType) /\ handleMouseMove(hit)
    \/ \E type \in PaletteTypes : selectTile(type)

SpecPalette == Init /\ [][NextPalette]_vars

\* C27: TilePalette.getSelectedType() never returns Empty, and through the
\* pointer handlers and palette buttons a cell whose tileType is not Empty
\* keeps a tileType that is not Empty: no input removes a placed tile.
C27_NoTileRemoval ==
    [][ /\ getSelectedType # "empty"
        /\ getSelectedType' # "empty"
        /\ \A k \in DOMAIN hexes :
              hexes[k].tileType # "empty" => hexes'[k].tileType # "empty" ]_vars

\* pointer input has placed a tile on a cell that already held one: the old
\* mesh is gone and the cell holds a tile of another type
C27_Witness ==
    /\ last.op \in {"handleMouseDown", "handleMouseMove"}
    /\ app.isMouseDown
    /\ <<last.q, last.r>> \in DOMAIN hexes
    /\ last.mesh # NoMesh
    /\ disposed[last.mesh] = 1
    /\ hexes[<<last.q, last.r>>].tileType = "water"
    /\ \E k \in DOMAIN hexes : hexes[k].tileType = "road"

----------------------------------------------------------------------------
(* The audio engine under overlapping presses.  A touch raises touchstart  *)
(* and then mousedown, and both listeners call handleMouseDown; up to      *)
(* MaxCalls calls of initialize() wait for Tone.start() at a time.         *)

NextAudio ==
    \/ /\ CanMake(app.selectedType)
       /\ Len(tasks) < MaxCalls
       /\ handleMouseDown
    \/ \E started \in BOOLEAN :
          CanMake(app.selectedType) /\ handleMouseDownResumed(started)
    \/ handleMouseUp
    \/ \E hit \in PaletteHits : CanMake(app.selectedType) /\ handleMouseMove(hit)

SpecAudio == Init /\ [][NextAudio]_vars

\* the synthesizers constructed so far that this.synth does not refer to;
\* initialize() disposes of none
Unreferenced(a) == a.synthsMade - (IF a.synth = NoSynth THEN 0 ELSE 1)

\* C28: over any number of calls of AudioEngine.initialize(), overlapping
\* ones included, at most one synthesizer is constructed and none is left
\* unreferenced.
C28_InitializeOnce ==
    /\ app.synthsMade <= 1
    /\ Unreferenced(app) = 0

====
